---- MODULE Spec2Model ----
(***************************************************************************)
(* Model of sprite_extractor.py: foreground mask, tile downscaling,        *)
(* 8-connected flood fill over the coarse grid, filtering, sorting,        *)
(* masked cropping and the atlas descriptor.                               *)
(*                                                                         *)
(* Grids are sequences of rows, as the code's lists of lists; TLA+         *)
(* sequences are 1-based, so the code's grid[y][x] is grid[y + 1][x + 1].  *)
(* Cells and pixels keep the code's 0-based (x, y) coordinates.            *)
(***************************************************************************)
EXTENDS Integers, Sequences, FiniteSets, TLC

VARIABLES
    pc,         \* position of the running operation
    \* flood_components_8
    small,      \* coarse occupancy grid
    vis,        \* visited grid
    q,          \* the deque
    cells,      \* cell list of the component being filled
    comps,      \* list of components (discovered, then filtered, then sorted)
    scan_x,     \* x of the scan's inner for loop
    scan_y,     \* y of the scan's outer for loop
    enq,        \* history: every cell in the order it was put on the deque
    \* arguments
    entry,      \* "main" or "direct" (extract_sprites called by other code)
    tile, min_cells, sort_mode, label,
    sheet,      \* the image file at in_path
    \* extract_sprites
    opened,     \* Image.open has returned
    img,        \* the opened image
    m,          \* full-resolution occupancy mask
    sw, sh,     \* coarse grid size
    found,      \* history: comps as flood_components_8 returned them
    kept,       \* history: comps after the min_cells filter, before sorting
    sprites,    \* list of SpriteRecord
    \* the file system and the process
    dir_made,   \* the output directory was created by this run
    files,      \* sprite files this run wrote: image name -> saved crop
    descriptor, \* the descriptor file this run wrote, <<>> while unwritten
    atlas,      \* the atlas extract_sprites returned
    status      \* "running", "ok" (exit 0) or "failed"

floodVars == <<small, vis, q, cells, comps, scan_x, scan_y, enq>>

argVars == <<entry, tile, min_cells, sort_mode, label, sheet>>

runVars == <<opened, img, m, sw, sh, found, kept, sprites, dir_made, files, descriptor,
             atlas, status>>

vars == <<pc, floodVars, argVars, runVars>>

----------------------------------------------------------------------------
(* Bounds of the checked instances *)

\* coarse grids handed to flood_components_8
MaxSW == 4
MaxSH == 2

\* masks and tile sizes handed to downscale_any
MaxMaskW == 3
MaxMaskH == 3
MaxDownTile == 3

\* length of the lists handed to sort_components
MaxComps == 3

\* images, tile sizes and min_cells of the runs without I/O failures
MaxW == 3
MaxH == 3
MaxPixels == 9
MaxTile == 2
MaxMinCells == 2

\* images of the runs with I/O failures and rejected arguments
MaxRunW == 3
MaxRunH == 2

----------------------------------------------------------------------------
(* Helpers for lists of lists *)

GridH(g) == Len(g)

GridW(g) == IF Len(g) > 0 THEN Len(g[1]) ELSE 0

At(g, x, y) == g[y + 1][x + 1]

SetAt(g, x, y, v) == [g EXCEPT ![y + 1] = [@ EXCEPT ![x + 1] = v]]

Min2(a, b) == IF a <= b THEN a ELSE b

----------------------------------------------------------------------------
(* flood_components_8 *)

\* the 4 orthogonal offsets only
Nbrs4 ==
    << <<0, -1>>, <<-1, 0>>, <<1, 0>>, <<0, 1>> >>

\* nbrs: dy outer, dx inner, (0, 0) left out
Nbrs ==
    << <<-1, -1>>, <<0, -1>>, <<1, -1>>,
       <<-1, 0>>,             <<1, 0>>,
       <<-1, 1>>,  <<0, 1>>,  <<1, 1>> >>

FloodStart(g) ==
    [pc |-> "scan", small |-> g,
     vis |-> [y \in 1..GridH(g) |-> [x \in 1..GridW(g) |-> FALSE]],
     q |-> <<>>, cells |-> <<>>, comps |-> <<>>, x |-> 0, y |-> 0,
     enq |-> <<>>]

\* a scan with the loops exchanged: x outer, y inner
ScanNextColumnMajor(st) ==
    IF st.y + 1 < GridH(st.small)
    THEN [st EXCEPT !.y = st.y + 1]
    ELSE [st EXCEPT !.y = 0, !.x = st.x + 1]

\* the two for loops: the position after (x, y)
ScanNext(st) ==
    IF st.x + 1 < GridW(st.small)
    THEN [st EXCEPT !.x = st.x + 1]
    ELSE [st EXCEPT !.x = 0, !.y = st.y + 1]

ScanInRange(st) == st.y < GridH(st.small) /\ st.x < GridW(st.small)

\* "if not small[y][x] or vis[y][x]: continue"
ScanSkips(st) ==
    ~At(st.small, st.x, st.y) \/ At(st.vis, st.x, st.y)

\* a seed put on the deque without "vis[y][x] = True"
SeedOpUnmarked(st) ==
    [st EXCEPT !.pc = "bfs",
               !.q = << <<st.x, st.y>> >>,
               !.cells = <<>>,
               !.enq = Append(st.enq, <<st.x, st.y>>)]

\* lines 109-111
SeedOp(st) ==
    [st EXCEPT !.pc = "bfs",
               !.q = << <<st.x, st.y>> >>,
               !.vis = SetAt(st.vis, st.x, st.y, TRUE),
               !.cells = <<>>,
               !.enq = Append(st.enq, <<st.x, st.y>>)]

\* the test of the inner if for neighbour (nx, ny)
Enqueues(g, v, nx, ny) ==
    /\ 0 <= nx /\ nx < GridW(g)
    /\ 0 <= ny /\ ny < GridH(g)
    /\ At(g, nx, ny)
    /\ ~At(v, nx, ny)

RECURSIVE VisitNbrs(_, _, _, _)
\* "for dx, dy in nbrs" from offset i on, around (cx, cy)
VisitNbrs(st, cx, cy, i) ==
    IF i > Len(Nbrs) THEN st
    ELSE LET nx == cx + Nbrs[i][1]
             ny == cy + Nbrs[i][2]
         IN  IF Enqueues(st.small, st.vis, nx, ny)
             THEN VisitNbrs([st EXCEPT !.vis = SetAt(st.vis, nx, ny, TRUE),
                                       !.q = Append(st.q, <<nx, ny>>),
                                       !.enq = Append(st.enq, <<nx, ny>>)],
                            cx, cy, i + 1)
             ELSE VisitNbrs(st, cx, cy, i + 1)

PopOp(st) ==
    LET c == Head(st.q)
    IN  VisitNbrs([st EXCEPT !.q = Tail(st.q), !.cells = Append(st.cells, c)],
                  c[1], c[2], 1)

CloseOp(st) ==
    ScanNext([st EXCEPT !.pc = "scan", !.comps = Append(st.comps, st.cells)])

FloodStep(st) ==
    IF st.pc = "scan"
    THEN IF ~ScanInRange(st) THEN [st EXCEPT !.pc = "done"]
         ELSE IF ScanSkips(st) THEN ScanNext(st)
         ELSE SeedOp(st)
    ELSE IF st.q # <<>> THEN PopOp(st) ELSE CloseOp(st)

RECURSIVE FloodRun(_)
FloodRun(st) == IF st.pc = "done" THEN st.comps ELSE FloodRun(FloodStep(st))

flood_components_8(g) == FloodRun(FloodStart(g))

----------------------------------------------------------------------------
(* Images.  A pixel of an image with an alpha band is <<rgb, a>>, a pixel  *)
(* of an image without one is <<rgb>>; rgb is one number per RGB colour,   *)
(* 0 being (0, 0, 0).  An image is [alpha |-> has an "A" band, px |-> rows]*)

StepThreshold == 2000000

Opaque == 255

\* img.convert("RGBA").load()
Rgba(image) ==
    [y \in 1..GridH(image.px) |-> [x \in 1..GridW(image.px) |->
        IF image.alpha THEN image.px[y][x]
        ELSE <<image.px[y][x][1], Opaque>>]]

\* img.convert("RGB").load()
Rgb(image) ==
    [y \in 1..GridH(image.px) |-> [x \in 1..GridW(image.px) |->
        image.px[y][x][1]]]

\* range(0, n, step) as a sequence
RECURSIVE RangeStep(_, _, _)
RangeStep(from, n, step) ==
    IF from >= n THEN <<>> ELSE <<from>> \o RangeStep(from + step, n, step)

RECURSIVE Flatten(_)
Flatten(rows) == IF rows = <<>> THEN <<>> ELSE Head(rows) \o Flatten(Tail(rows))

\* the colours the Counter is fed, in order
Samples(image) ==
    LET w == GridW(image.px)
        h == GridH(image.px)
        step == IF w * h <= StepThreshold THEN 1 ELSE 2
        ys == RangeStep(0, h, step)
        xs == RangeStep(0, w, step)
    IN  Flatten([i \in 1..Len(ys) |-> [j \in 1..Len(xs) |->
                    At(Rgb(image), xs[j], ys[i])]])

Occurrences(s, c) == Cardinality({i \in 1..Len(s) : s[i] = c})

\* Counter.most_common(1): the highest count, the first inserted among equals
most_common_rgb(image) ==
    LET s == Samples(image)
    IN  IF s = <<>> THEN 0
        ELSE LET best == CHOOSE i \in 1..Len(s) :
                     /\ \A j \in 1..Len(s) :
                            Occurrences(s, s[j]) <= Occurrences(s, s[i])
                     /\ \A j \in 1..(i - 1) :
                            Occurrences(s, s[j]) < Occurrences(s, s[i])
             IN  s[best]

\* "px[x, y][3] > 0"
AlphaIsForeground(a) == a > 0

foreground_mask(image) ==
    IF image.alpha
    THEN [y \in 1..GridH(image.px) |-> [x \in 1..GridW(image.px) |->
            AlphaIsForeground(Rgba(image)[y][x][2])]]
    ELSE LET bg == most_common_rgb(image)
         IN  [y \in 1..GridH(image.px) |-> [x \in 1..GridW(image.px) |->
                Rgb(image)[y][x] # bg]]

----------------------------------------------------------------------------
(* downscale_any *)

\* rounding down
FloorDiv(n, t) == n \div t

\* "(w + tile - 1) // tile"
CeilDiv(n, t) == (n + t - 1) \div t

\* "min((sy + 1) * tile, h)"
BlockEnd(s, t, n) == Min2((s + 1) * t, n)

downscale_any(mask, t) ==
    LET h == Len(mask)
        w == IF h > 0 THEN Len(mask[1]) ELSE 0
        dw == CeilDiv(w, t)
        dh == CeilDiv(h, t)
    IN  [small |->
            [cy \in 1..dh |-> [cx \in 1..dw |->
                \E y \in ((cy - 1) * t)..(BlockEnd(cy - 1, t, h) - 1),
                   x \in ((cx - 1) * t)..(BlockEnd(cx - 1, t, w) - 1) :
                    At(mask, x, y)]],
         sw |-> dw, sh |-> dh]

----------------------------------------------------------------------------
(* sort_components and the min_cells filter *)

SortModes == {"none", "topleft", "size"}

MinOf(S) == CHOOSE v \in S : \A u \in S : v <= u

MaxOf(S) == CHOOSE v \in S : \A u \in S : u <= v

Xs(c) == {c[i][1] : i \in 1..Len(c)}

Ys(c) == {c[i][2] : i \in 1..Len(c)}

bbox_key(c) == <<MinOf(Ys(c)), MinOf(Xs(c)), MaxOf(Ys(c)), MaxOf(Xs(c))>>

\* the key without its minus sign
SizeKeyAscending(c) == <<Len(c)>>

size_key(c) == <<-Len(c)>>

\* Python's tuple order on keys of one length
RECURSIVE LexLess(_, _)
LexLess(a, b) ==
    IF a = <<>> THEN FALSE
    ELSE IF Head(a) # Head(b) THEN Head(a) < Head(b)
    ELSE LexLess(Tail(a), Tail(b))

SortKey(mode, c) == IF mode = "topleft" THEN bbox_key(c) ELSE size_key(c)

\* c put behind every element whose key is not greater: a stable insertion
RECURSIVE InsertStable(_, _, _)
InsertStable(mode, s, c) ==
    IF s = <<>> THEN <<c>>
    ELSE IF LexLess(SortKey(mode, c), SortKey(mode, Head(s)))
         THEN <<c>> \o s
         ELSE <<Head(s)>> \o InsertStable(mode, Tail(s), c)

RECURSIVE Sorted(_, _)
\* sorted(comps, key=...): ascending by key, stable
Sorted(mode, cs) ==
    IF cs = <<>> THEN <<>>
    ELSE InsertStable(mode, Sorted(mode, SubSeq(cs, 1, Len(cs) - 1)),
                      cs[Len(cs)])

\* defined for the modes that do not raise
sort_components(cs, mode) ==
    IF mode = "none" THEN cs ELSE Sorted(mode, cs)

SortRaises(mode) == mode \notin SortModes

RECURSIVE FilterCompsStrict(_, _)
\* the filter with > in the place of >=
FilterCompsStrict(cs, n) ==
    IF cs = <<>> THEN <<>>
    ELSE IF Len(Head(cs)) > n
         THEN <<Head(cs)>> \o FilterCompsStrict(Tail(cs), n)
         ELSE FilterCompsStrict(Tail(cs), n)

RECURSIVE FilterComps(_, _)
\* "[c for c in comps if len(c) >= min_cells]"
FilterComps(cs, n) ==
    IF cs = <<>> THEN <<>>
    ELSE IF Len(Head(cs)) >= n
         THEN <<Head(cs)>> \o FilterComps(Tail(cs), n)
         ELSE FilterComps(Tail(cs), n)

----------------------------------------------------------------------------
(* apply_component_mask and the crop box *)

CellSet(c) == {c[i] : i \in 1..Len(c)}

\* the box without the + 1 of its exclusive ends
CoarseBoxInclusive(c) ==
    <<MinOf(Xs(c)), MinOf(Ys(c)), MaxOf(Xs(c)), MaxOf(Ys(c))>>

\* (sx0, sy0, sx1, sy1)
CoarseBox(c) ==
    <<MinOf(Xs(c)), MinOf(Ys(c)), MaxOf(Xs(c)) + 1, MaxOf(Ys(c)) + 1>>

\* (x0, y0, x1, y1)
CropBox(c, t, w, h) ==
    LET b == CoarseBox(c)
    IN  <<b[1] * t, b[2] * t, Min2(b[3] * t, w), Min2(b[4] * t, h)>>

\* the test without its cell_set half
ErasesByMaskOnly(full_mask, cell_set, t, gx, gy) ==
    ~At(full_mask, gx, gy)

\* "if (sx, sy) not in cell_set or not row_m[gx]"
Erases(full_mask, cell_set, t, gx, gy) ==
    <<gx \div t, gy \div t>> \notin cell_set \/ ~At(full_mask, gx, gy)

apply_component_mask(rgba, full_mask, cell_set, t, crop_box) ==
    LET x0 == crop_box[1]
        y0 == crop_box[2]
        cw == crop_box[3] - crop_box[1]
        ch == crop_box[4] - crop_box[2]
    IN  [py \in 1..ch |-> [px \in 1..cw |->
            LET gx == x0 + px - 1
                gy == y0 + py - 1
                p == At(rgba, gx, gy)
            IN  IF Erases(full_mask, cell_set, t, gx, gy)
                THEN <<p[1], 0>>
                ELSE p]]

----------------------------------------------------------------------------
(* The flood fill as a state machine over the variables *)

Fl ==
    [pc |-> pc, small |-> small, vis |-> vis, q |-> q, cells |-> cells,
     comps |-> comps, x |-> scan_x, y |-> scan_y, enq |-> enq]

SetFl(st) ==
    /\ pc' = st.pc
    /\ small' = st.small
    /\ vis' = st.vis
    /\ q' = st.q
    /\ cells' = st.cells
    /\ comps' = st.comps
    /\ scan_x' = st.x
    /\ scan_y' = st.y
    /\ enq' = st.enq
    /\ UNCHANGED <<argVars, runVars>>

\* values of the variables an operation called on its own does not use
IdleArgs ==
    /\ entry = "direct"
    /\ tile = 1
    /\ min_cells = 1
    /\ sort_mode = "none"
    /\ label = FALSE
    /\ sheet = <<>>

IdleRun ==
    /\ opened = FALSE
    /\ img = <<>>
    /\ m = <<>>
    /\ sw = 0
    /\ sh = 0
    /\ found = <<>>
    /\ kept = <<>>
    /\ sprites = <<>>
    /\ dir_made = FALSE
    /\ files = <<>>
    /\ descriptor = <<>>
    /\ atlas = <<>>
    /\ status = "running"

IdleFlood ==
    /\ small = <<>>
    /\ vis = <<>>
    /\ q = <<>>
    /\ cells = <<>>
    /\ scan_x = 0
    /\ scan_y = 0
    /\ enq = <<>>

Grids(maxw, maxh) ==
    UNION {[1..h -> [1..w -> BOOLEAN]] : w \in 0..maxw, h \in 1..maxh}
        \cup {<<>>}

InitFlood ==
    \E g \in Grids(MaxSW, MaxSH) :
        /\ pc = "scan"
        /\ small = g
        /\ vis = FloodStart(g).vis
        /\ q = <<>>
        /\ cells = <<>>
        /\ comps = <<>>
        /\ scan_x = 0
        /\ scan_y = 0
        /\ enq = <<>>
        /\ IdleArgs
        /\ IdleRun

ScanSkip ==
    /\ pc = "scan" /\ ScanInRange(Fl) /\ ScanSkips(Fl)
    /\ SetFl(ScanNext(Fl))

ScanSeed ==
    /\ pc = "scan" /\ ScanInRange(Fl) /\ ~ScanSkips(Fl)
    /\ SetFl(SeedOp(Fl))

PopCell ==
    /\ pc = "bfs" /\ q # <<>>
    /\ SetFl(PopOp(Fl))

CloseComponent ==
    /\ pc = "bfs" /\ q = <<>>
    /\ SetFl(CloseOp(Fl))

ScanEnd ==
    /\ pc = "scan" /\ ~ScanInRange(Fl)
    /\ SetFl([Fl EXCEPT !.pc = "done"])

NextFlood == ScanSkip \/ ScanSeed \/ PopCell \/ CloseComponent \/ ScanEnd

SpecFlood == InitFlood /\ [][NextFlood]_vars

----------------------------------------------------------------------------
(* downscale_any called on its own *)

InitDown ==
    /\ pc = "down_call"
    /\ m \in Grids(MaxMaskW, MaxMaskH)
    /\ \E t \in 1..MaxDownTile :
        /\ entry = "direct"
        /\ tile = t
        /\ min_cells = 1
        /\ sort_mode = "none"
        /\ label = FALSE
        /\ sheet = <<>>
    /\ opened = FALSE
    /\ img = <<>>
    /\ sw = 0
    /\ sh = 0
    /\ found = <<>>
    /\ kept = <<>>
    /\ sprites = <<>>
    /\ dir_made = FALSE
    /\ files = <<>>
    /\ descriptor = <<>>
    /\ atlas = <<>>
    /\ status = "running"
    /\ comps = <<>>
    /\ IdleFlood

DownscaleCall ==
    /\ pc = "down_call"
    /\ LET r == downscale_any(m, tile)
       IN  /\ small' = r.small
           /\ sw' = r.sw
           /\ sh' = r.sh
    /\ pc' = "down_done"
    /\ UNCHANGED <<vis, q, cells, comps, scan_x, scan_y, enq, argVars, opened, img, m,
                   found, kept, sprites, dir_made, files, descriptor, atlas,
                   status>>

NextDown == DownscaleCall

SpecDown == InitDown /\ [][NextDown]_vars

----------------------------------------------------------------------------
(* sort_components called on its own *)

\* cells of the components handed to sort_components
SortCells == << <<0, 0>>, <<1, 0>>, <<0, 1>>, <<1, 1>> >>

\* the cells of s picked by the index set I, in the order of s
RECURSIVE Pick(_, _, _)
Pick(s, I, i) ==
    IF i > Len(s) THEN <<>>
    ELSE (IF i \in I THEN <<s[i]>> ELSE <<>>) \o Pick(s, I, i + 1)

SortUniverse ==
    {Pick(SortCells, I, 1) : I \in (SUBSET (1..Len(SortCells))) \ {{}}}

CompLists(n) == UNION {[1..k -> SortUniverse] : k \in 0..n}

InitSort ==
    /\ pc = "sort_call"
    /\ comps \in CompLists(MaxComps)
    /\ kept = comps
    /\ entry = "direct"
    /\ tile = 1
    /\ min_cells = 1
    /\ sort_mode \in SortModes \cup {"bogus"}
    /\ label = FALSE
    /\ sheet = <<>>
    /\ IdleFlood
    /\ opened = FALSE
    /\ img = <<>>
    /\ m = <<>>
    /\ sw = 0
    /\ sh = 0
    /\ found = <<>>
    /\ sprites = <<>>
    /\ dir_made = FALSE
    /\ files = <<>>
    /\ descriptor = <<>>
    /\ atlas = <<>>
    /\ status = "running"

SortCall ==
    /\ pc = "sort_call"
    /\ ~SortRaises(sort_mode)
    /\ comps' = sort_components(comps, sort_mode)
    /\ pc' = "sort_done"
    /\ UNCHANGED <<small, vis, q, cells, scan_x, scan_y, enq, argVars, runVars>>

\* "raise ValueError(f"Unknown sort mode: {mode}")"
SortCallRaise ==
    /\ pc = "sort_call"
    /\ SortRaises(sort_mode)
    /\ pc' = "sort_raised"
    /\ UNCHANGED <<floodVars, argVars, runVars>>

NextSort == SortCall \/ SortCallRaise

SpecSort == InitSort /\ [][NextSort]_vars

----------------------------------------------------------------------------
(* main and extract_sprites *)

AlphaPixels == {<<1, 0>>, <<2, 128>>}

RgbPixels == {<<1>>, <<2>>}

Images(maxw, maxh, maxpx) ==
    UNION {[alpha : {TRUE}, px : [1..d[2] -> [1..d[1] -> AlphaPixels]]] \cup
           [alpha : {FALSE}, px : [1..d[2] -> [1..d[1] -> RgbPixels]]] :
           d \in {e \in (1..maxw) \X (1..maxh) : e[1] * e[2] <= maxpx}}

OutDir == "out"

InPath == <<"sheets", "/", "sheet.png">>

\* a path is the sequence of its pieces; "/" separates directories
LastSep(path) ==
    IF \E i \in 1..Len(path) : path[i] = "/"
    THEN MaxOf({i \in 1..Len(path) : path[i] = "/"})
    ELSE 0

\* os.path.basename
Basename(path) == SubSeq(path, LastSep(path) + 1, Len(path))

\* os.path.splitext(name)[0]
SplitextRoot(name) ==
    IF name # <<>> /\ name[Len(name)] = ".png"
    THEN SubSeq(name, 1, Len(name) - 1)
    ELSE name

DigitChars == <<"0", "1", "2", "3", "4", "5", "6", "7", "8", "9">>

\* f"sprite_{sid:04d}.png" as its pieces, for sid below 10000
SpriteFile(sid) ==
    <<"sprite_", DigitChars[((sid \div 1000) % 10) + 1],
      DigitChars[((sid \div 100) % 10) + 1],
      DigitChars[((sid \div 10) % 10) + 1],
      DigitChars[(sid % 10) + 1], ".png">>

\* os.path.join(out_dir, out_img)
JoinPath(dir, name) == <<dir, "/">> \o name

\* the placeholder labeler
send_to_vlm(path) == SplitextRoot(Basename(path))

SpriteRecord(sid, name, c, t, w, h) ==
    LET b == CoarseBox(c)
        box == CropBox(c, t, w, h)
    IN  [id |-> sid, name |-> name,
         x |-> box[1], y |-> box[2],
         w |-> box[3] - box[1], h |-> box[4] - box[2],
         mask_x |-> b[1], mask_y |-> b[2],
         mask_w |-> b[3] - b[1], mask_h |-> b[4] - b[2],
         image |-> SpriteFile(sid)]

ArgsRejected ==
    sort_mode \notin SortModes \/ tile <= 0 \/ min_cells <= 0

\* argparse's choices and the two checks of main
MainReject ==
    /\ pc = "main"
    /\ ArgsRejected
    /\ pc' = "exit"
    /\ status' = "failed"
    /\ UNCHANGED <<floodVars, argVars, opened, img, m, sw, sh, found, kept,
                   sprites, dir_made, files, descriptor, atlas>>

MainCall ==
    /\ pc = "main"
    /\ ~ArgsRejected
    /\ pc' = "extract"
    /\ UNCHANGED <<floodVars, argVars, runVars>>

Fail ==
    /\ pc' = "exit"
    /\ status' = "failed"
    /\ UNCHANGED <<floodVars, argVars, opened, img, m, sw, sh, found, kept,
                   sprites, dir_made, files, descriptor, atlas>>

MakeDirs ==
    /\ pc = "extract"
    /\ dir_made' = TRUE
    /\ pc' = "open"
    /\ UNCHANGED <<floodVars, argVars, opened, img, m, sw, sh, found, kept,
                   sprites, files, descriptor, atlas, status>>

\* os.makedirs raises
MakeDirsFail == pc = "extract" /\ Fail

\* lines 185-187
OpenImage ==
    /\ pc = "open"
    /\ img' = sheet
    /\ opened' = TRUE
    /\ pc' = "analyse"
    /\ UNCHANGED <<floodVars, argVars, m, sw, sh, found, kept, sprites,
                   dir_made, files, descriptor, atlas, status>>

\* Image.open raises
OpenImageFail == pc = "open" /\ Fail

\* lines 189-193 raise: a division by zero in downscale_any, or the
\* ValueError of sort_components
AnalyseRaises == tile = 0 \/ SortRaises(sort_mode)

Analyse ==
    /\ pc = "analyse"
    /\ ~AnalyseRaises
    /\ LET mask == foreground_mask(img)
           d == downscale_any(mask, tile)
           all == flood_components_8(d.small)
           some == FilterComps(all, min_cells)
       IN  /\ m' = mask
           /\ small' = d.small
           /\ sw' = d.sw
           /\ sh' = d.sh
           /\ found' = all
           /\ kept' = some
           /\ comps' = sort_components(some, sort_mode)
    /\ pc' = "sprite"
    /\ UNCHANGED <<vis, q, cells, scan_x, scan_y, enq, argVars, opened, img,
                   sprites, dir_made, files, descriptor, atlas, status>>

AnalyseRaise == pc = "analyse" /\ AnalyseRaises /\ Fail

ImageW == GridW(img.px)

ImageH == GridH(img.px)

\* lines 196-216 for sid = len(sprites): the crop is masked and saved
SaveSprite ==
    /\ pc = "sprite"
    /\ Len(sprites) < Len(comps)
    /\ LET sid == Len(sprites)
           c == comps[sid + 1]
           crop == apply_component_mask(Rgba(img), m, CellSet(c), tile,
                                        CropBox(c, tile, ImageW, ImageH))
       IN  files' = [n \in DOMAIN files \cup {SpriteFile(sid)} |->
                        IF n = SpriteFile(sid) THEN crop ELSE files[n]]
    /\ pc' = "name"
    /\ UNCHANGED <<floodVars, argVars, opened, img, m, sw, sh, found, kept,
                   sprites, dir_made, descriptor, atlas, status>>

\* crop.save raises
SaveSpriteFail == pc = "sprite" /\ Len(sprites) < Len(comps) /\ Fail

\* lines 218-234
NameSprite ==
    /\ pc = "name"
    /\ LET sid == Len(sprites)
           out_img == SpriteFile(sid)
           name == IF label THEN send_to_vlm(JoinPath(OutDir, out_img))
                   ELSE out_img
       IN  sprites' = Append(sprites,
               SpriteRecord(sid, name, comps[sid + 1], tile, ImageW, ImageH))
    /\ pc' = "sprite"
    /\ UNCHANGED <<floodVars, argVars, opened, img, m, sw, sh, found, kept,
                   dir_made, files, descriptor, atlas, status>>

\* a labeler put in the place of send_to_vlm raises
LabelFail == pc = "name" /\ label /\ Fail

\* lines 236-249
Return ==
    /\ pc = "sprite"
    /\ Len(sprites) = Len(comps)
    /\ atlas' = [meta |-> [source |-> Basename(InPath),
                           image_w |-> ImageW, image_h |-> ImageH, tile |-> tile, mask_w |-> sw, mask_h |-> sh,
                           count |-> Len(sprites)],
                 sprites |-> sprites]
    /\ pc' = IF entry = "main" THEN "write" ELSE "exit"
    /\ status' = IF entry = "main" THEN status ELSE "ok"
    /\ UNCHANGED <<floodVars, argVars, opened, img, m, sw, sh, found, kept,
                   sprites, dir_made, files, descriptor>>

\* lines 298-300
WriteAtlas ==
    /\ pc = "write"
    /\ descriptor' = <<atlas>>
    /\ pc' = "print"
    /\ UNCHANGED <<floodVars, argVars, opened, img, m, sw, sh, found, kept,
                   sprites, dir_made, files, atlas, status>>

\* open(atlas_path, "w") raises
WriteAtlasFail == pc = "write" /\ Fail

\* lines 302-304
Exit ==
    /\ pc = "print"
    /\ pc' = "exit"
    /\ status' = "ok"
    /\ UNCHANGED <<floodVars, argVars, opened, img, m, sw, sh, found, kept,
                   sprites, dir_made, files, descriptor, atlas>>

InitRun ==
    /\ small = <<>>
    /\ vis = <<>>
    /\ q = <<>>
    /\ cells = <<>>
    /\ comps = <<>>
    /\ scan_x = 0
    /\ scan_y = 0
    /\ enq = <<>>
    /\ IdleRun

\* every run: through main or by a call of extract_sprites, any arguments
Init ==
    /\ entry \in {"main", "direct"}
    /\ pc = IF entry = "main" THEN "main" ELSE "extract"
    /\ tile \in 0..MaxTile
    /\ min_cells \in 0..MaxMinCells
    /\ sort_mode \in SortModes \cup {"bogus"}
    /\ label \in BOOLEAN
    /\ sheet \in Images(MaxRunW, MaxRunH, MaxRunW * MaxRunH)
    /\ InitRun

Next ==
    \/ MainReject
    \/ MainCall
    \/ MakeDirs
    \/ MakeDirsFail
    \/ OpenImage
    \/ OpenImageFail
    \/ Analyse
    \/ AnalyseRaise
    \/ SaveSprite
    \/ SaveSpriteFail
    \/ NameSprite
    \/ LabelFail
    \/ Return
    \/ WriteAtlas
    \/ WriteAtlasFail
    \/ Exit

Spec == Init /\ [][Next]_vars

\* the runs of main with accepted arguments in which no I/O call raises
InitExtract ==
    /\ entry = "main"
    /\ pc = "main"
    /\ tile \in 1..MaxTile
    /\ min_cells \in 1..MaxMinCells
    /\ sort_mode \in SortModes
    /\ label = TRUE
    /\ sheet \in Images(MaxW, MaxH, MaxPixels)
    /\ InitRun

NextExtract ==
    \/ MainCall
    \/ MakeDirs
    \/ OpenImage
    \/ Analyse
    \/ SaveSprite
    \/ NameSprite
    \/ Return
    \/ WriteAtlas
    \/ Exit

SpecExtract == InitExtract /\ [][NextExtract]_vars

----------------------------------------------------------------------------
(* Vocabulary of the properties *)

Occupied(g) ==
    {<<x, y>> : x \in 0..(GridW(g) - 1), y \in 0..(GridH(g) - 1)} \cap
    {c \in (0..(GridW(g) - 1)) \X (0..(GridH(g) - 1)) : At(g, c[1], c[2])}

Abs(n) == IF n < 0 THEN -n ELSE n

Chebyshev(a, b) ==
    IF Abs(a[1] - b[1]) >= Abs(a[2] - b[2])
    THEN Abs(a[1] - b[1]) ELSE Abs(a[2] - b[2])

\* the cells of S joined to a cell of R by a chain of cells of S, each at
\* Chebyshev distance 1 from the one before
RECURSIVE Joined(_, _)
Joined(S, R) ==
    LET more == {c \in S \ R : \E r \in R : Chebyshev(c, r) = 1}
    IN  IF more = {} THEN R ELSE Joined(S, R \cup more)

\* (y, x) order of the scan
RowMajorLess(a, b) == a[2] < b[2] \/ (a[2] = b[2] /\ a[1] < b[1])

\* places <<i, j>> of the cells in a list of cell lists
Places(cs) == UNION {{<<i, j>> : j \in 1..Len(cs[i])} : i \in 1..Len(cs)}

----------------------------------------------------------------------------
(* Partition *)

(* C1: when flood_components_8 returns, its components partition the       *)
(* occupied cells: every occupied cell is at exactly one place of exactly  *)
(* one component, every listed cell is an occupied cell of the grid, no    *)
(* component is empty, and the components' union is the occupied set.     *)
C1_Partition ==
    pc = "done" =>
        /\ \A c \in Occupied(small) :
              Cardinality({p \in Places(comps) : comps[p[1]][p[2]] = c}) = 1
        /\ \A p \in Places(comps) : comps[p[1]][p[2]] \in Occupied(small)
        /\ \A i \in 1..Len(comps) : comps[i] # <<>>
        /\ UNION {CellSet(comps[i]) : i \in 1..Len(comps)} = Occupied(small)

C1_Witness ==
    /\ pc = "done"
    /\ Len(comps) >= 2
    /\ \E i \in 1..Len(comps) : Len(comps[i]) >= 3
    /\ Cardinality(Occupied(small)) < GridW(small) * GridH(small)

----------------------------------------------------------------------------
(* 8-connectivity *)

ScenarioA == << <<TRUE, FALSE>>, <<FALSE, TRUE>> >>

ScenarioB == << <<TRUE, FALSE, FALSE, FALSE>>, <<FALSE, FALSE, FALSE, TRUE>> >>

(* C2: the returned components are exactly the maximal 8-connected sets of *)
(* occupied cells: occupied cells at Chebyshev distance 1 share a          *)
(* component, and a component is the set of occupied cells joined to any   *)
(* of its cells by chains of such steps.  Two cells touching diagonally in *)
(* a 2x2 grid form one component; two lone cells at distance 3 form two.   *)
C2_Connected ==
    pc = "done" =>
        /\ \A a \in Occupied(small), b \in Occupied(small) :
              Chebyshev(a, b) = 1 =>
                  \E i \in 1..Len(comps) : {a, b} \subseteq CellSet(comps[i])
        /\ \A i \in 1..Len(comps) : \A c \in CellSet(comps[i]) :
              CellSet(comps[i]) = Joined(Occupied(small), {c})
        /\ small = ScenarioA => comps = << << <<0, 0>>, <<1, 1>> >> >>
        /\ small = ScenarioB => comps = << << <<0, 0>> >>, << <<3, 1>> >> >>

C2_Witness ==
    /\ pc = "done"
    /\ small = << <<TRUE, FALSE, FALSE, TRUE>>, <<FALSE, TRUE, FALSE, FALSE>> >>
    /\ comps = << << <<0, 0>>, <<1, 1>> >>, << <<3, 0>> >> >>

----------------------------------------------------------------------------
(* Discovery order *)

NoRepeat(s) == \A i \in 1..Len(s), j \in 1..Len(s) : i # j => s[i] # s[j]

(* C9: components are returned in strictly ascending row-major order of    *)
(* their seed, the seed being the first cell listed and the top-most, then *)
(* left-most cell of the component; a cell is marked visited exactly when  *)
(* it is put on the deque, so no cell is put there or listed twice; under  *)
(* sort mode "none" with min_cells = 1 the sprite with id i is the         *)
(* component with the i-th smallest seed.                                  *)
C9_DiscoveryOrder ==
    /\ NoRepeat(enq)
    /\ \A c \in (0..(GridW(small) - 1)) \X (0..(GridH(small) - 1)) :
          At(vis, c[1], c[2]) <=> (\E i \in 1..Len(enq) : enq[i] = c)
    /\ NoRepeat(Flatten(comps) \o (IF pc = "bfs" THEN cells ELSE <<>>))
    /\ pc = "done" =>
          /\ \A i \in 1..Len(comps) : \A c \in CellSet(comps[i]) :
                c = comps[i][1] \/ RowMajorLess(comps[i][1], c)
          /\ \A i \in 1..(Len(comps) - 1) :
                RowMajorLess(comps[i][1], comps[i + 1][1])
          /\ LET ordered == sort_components(FilterComps(comps, 1), "none")
             IN  /\ Len(ordered) = Len(comps)
                 /\ \A i \in 1..Len(ordered) :
                       /\ CellSet(ordered[i]) =
                              Joined(Occupied(small), {ordered[i][1]})
                       /\ Cardinality({j \in 1..Len(ordered) :
                              RowMajorLess(ordered[j][1], ordered[i][1])})
                          = i - 1

C9_Witness ==
    /\ pc = "done"
    /\ Len(comps) >= 2
    /\ \E i \in 1..Len(comps) : \E c \in CellSet(comps[i]) : c[1] < comps[i][1][1]

----------------------------------------------------------------------------
(* Downscaler *)

\* the least n with n * t >= k
Ceil(k, t) == CHOOSE n \in 0..k : n * t >= k /\ \A j \in 0..(n - 1) : j * t < k

InBlock(x, y, cx, cy, t, w, h) ==
    /\ cx * t <= x /\ x < Min2((cx + 1) * t, w)
    /\ cy * t <= y /\ y < Min2((cy + 1) * t, h)

(* C6: downscale_any returns sh = ceil(h / tile) rows of sw = ceil(w / tile)*)
(* cells; a cell is true exactly when a mask pixel of its tile-sized,       *)
(* edge-clipped block is true, and every mask pixel lies in exactly one     *)
(* block.                                                                   *)
C6_Downscale ==
    pc = "down_done" =>
        LET w == GridW(m)
            h == GridH(m)
            px == (0..(w - 1)) \X (0..(h - 1))
            cl == (0..(sw - 1)) \X (0..(sh - 1))
        IN  /\ sw = Ceil(w, tile)
            /\ sh = Ceil(h, tile)
            /\ Len(small) = sh
            /\ \A cy \in 1..sh : Len(small[cy]) = sw
            /\ \A c \in cl :
                  At(small, c[1], c[2]) <=>
                      \E p \in px : /\ InBlock(p[1], p[2], c[1], c[2], tile, w, h)
                                    /\ At(m, p[1], p[2])
            /\ \A p \in px :
                  Cardinality({c \in cl :
                      InBlock(p[1], p[2], c[1], c[2], tile, w, h)}) = 1

C6_Witness ==
    /\ pc = "down_done"
    /\ tile = 2
    /\ GridW(m) = 3
    /\ GridH(m) = 3
    /\ At(m, 2, 2)
    /\ At(small, 1, 1)
    /\ ~At(small, 0, 0)
    /\ \E x \in 0..1, y \in 0..1 : ~At(m, x, y)

----------------------------------------------------------------------------
(* Sort laws *)

BoxTuple(c) ==
    <<MinOf({c[i][2] : i \in 1..Len(c)}), MinOf({c[i][1] : i \in 1..Len(c)}),
      MaxOf({c[i][2] : i \in 1..Len(c)}), MaxOf({c[i][1] : i \in 1..Len(c)})>>

TupleLE(a, b) ==
    \/ a = b
    \/ \E k \in 1..Len(a) : a[k] < b[k] /\ \A j \in 1..(k - 1) : a[j] = b[j]

\* the rearrangements of the places 1..n
Perms(n) == {f \in [1..n -> 1..n] : \A i \in 1..n, j \in 1..n : i # j => f[i] # f[j]}

(* C4: sort_components returns a permutation of its input; under "topleft" *)
(* the (min_y, min_x, max_y, max_x) tuples of consecutive components do    *)
(* not decrease lexicographically; under "size" the cell counts do not     *)
(* increase and components of equal count keep their relative order; under *)
(* "none" the order is unchanged.                                          *)
C4_SortLaws ==
    pc = "sort_done" =>
        /\ Len(comps) = Len(kept)
        /\ \E f \in Perms(Len(kept)) :
              /\ \A i \in 1..Len(kept) : comps[i] = kept[f[i]]
              /\ sort_mode = "size" =>
                    \A i \in 1..Len(kept), j \in 1..Len(kept) :
                        (i < j /\ Len(comps[i]) = Len(comps[j])) => f[i] < f[j]
        /\ sort_mode = "topleft" =>
              \A i \in 1..(Len(comps) - 1) :
                  TupleLE(BoxTuple(comps[i]), BoxTuple(comps[i + 1]))
        /\ sort_mode = "size" =>
              \A i \in 1..(Len(comps) - 1) : Len(comps[i]) >= Len(comps[i + 1])
        /\ sort_mode = "none" => comps = kept

C4_Witness ==
    /\ pc = "sort_done"
    /\ sort_mode = "size"
    /\ Len(kept) = 3
    /\ Len(kept[1]) = 1
    /\ Len(kept[2]) = 2
    /\ Len(kept[3]) = 1
    /\ kept[1] # kept[3]
    /\ comps = <<kept[2], kept[1], kept[3]>>

----------------------------------------------------------------------------
(* Masking law *)

SavedIds == {sid \in 0..(Len(comps) - 1) : SpriteFile(sid) \in DOMAIN files}

\* where the crop of component c starts in the sheet
Origin(c) ==
    <<MinOf({c[i][1] : i \in 1..Len(c)}) * tile,
      MinOf({c[i][2] : i \in 1..Len(c)}) * tile>>

CropPixels(crop) == (0..(GridW(crop) - 1)) \X (0..(GridH(crop) - 1))

\* pixel p of the crop of sprite sid is one the masking keeps
Keeps(sid, p) ==
    LET c == comps[sid + 1]
        gx == Origin(c)[1] + p[1]
        gy == Origin(c)[2] + p[2]
    IN  /\ <<gx \div tile, gy \div tile>> \in {c[i] : i \in 1..Len(c)}
        /\ At(m, gx, gy)

(* C3: in every saved sprite, a pixel's alpha is nonzero exactly when its  *)
(* coarse cell belongs to the sprite's component and the occupancy mask is *)
(* true at its place in the sheet; a kept pixel equals the source RGBA     *)
(* pixel, an erased one has alpha 0 and the source's RGB.                  *)
C3_MaskingLaw ==
    \A sid \in SavedIds :
        LET c == comps[sid + 1]
            crop == files[SpriteFile(sid)]
        IN  \A p \in CropPixels(crop) :
                LET out == At(crop, p[1], p[2])
                    src == At(Rgba(img), Origin(c)[1] + p[1], Origin(c)[2] + p[2])
                IN  /\ out[2] # 0 <=> Keeps(sid, p)
                    /\ Keeps(sid, p) => out = src
                    /\ ~Keeps(sid, p) => out[2] = 0 /\ out[1] = src[1]

\* a sprite with a kept pixel, a foreground pixel of another component that
\* is erased, and a background pixel
C3_Witness ==
    \E sid \in SavedIds :
        LET c == comps[sid + 1]
            crop == files[SpriteFile(sid)]
        IN  /\ \E p \in CropPixels(crop) : Keeps(sid, p)
            /\ \E p \in CropPixels(crop) :
                  /\ At(m, Origin(c)[1] + p[1], Origin(c)[2] + p[2])
                  /\ ~Keeps(sid, p)
                  /\ At(crop, p[1], p[2])[2] = 0
            /\ \E p \in CropPixels(crop) :
                  ~At(m, Origin(c)[1] + p[1], Origin(c)[2] + p[2])

----------------------------------------------------------------------------
(* Coverage *)

SheetPixels == (0..(ImageW - 1)) \X (0..(ImageH - 1))

InBox(r, p) ==
    /\ r.x <= p[1] /\ p[1] < r.x + r.w
    /\ r.y <= p[2] /\ p[2] < r.y + r.h

\* the sprites in which sheet pixel p is non-transparent
VisibleIn(p) ==
    {k \in 1..Len(sprites) :
        /\ InBox(sprites[k], p)
        /\ At(files[sprites[k].image], p[1] - sprites[k].x,
              p[2] - sprites[k].y)[2] # 0}

CellOf(p) == <<p[1] \div tile, p[2] \div tile>>

(* C10: when a run ends well, each crop box lies in the image and is not   *)
(* empty, and every foreground pixel of the sheet is non-transparent in    *)
(* exactly one sprite, the one of the component owning its coarse cell, at *)
(* its place in that crop, if that component has min_cells cells or more,  *)
(* and in no sprite otherwise; a background pixel is visible in none.      *)
C10_Coverage ==
    (pc = "exit" /\ status = "ok") =>
        /\ \A k \in 1..Len(sprites) :
              LET r == sprites[k]
              IN  /\ 0 <= r.x /\ r.x < r.x + r.w /\ r.x + r.w <= ImageW
                  /\ 0 <= r.y /\ r.y < r.y + r.h /\ r.y + r.h <= ImageH
                  /\ GridW(files[r.image]) = r.w
                  /\ GridH(files[r.image]) = r.h
        /\ \A p \in SheetPixels :
              IF At(m, p[1], p[2])
              THEN \E i \in 1..Len(found) :
                      /\ CellOf(p) \in {found[i][j] : j \in 1..Len(found[i])}
                      /\ IF Len(found[i]) >= min_cells
                         THEN \E k \in 1..Len(sprites) :
                                 /\ VisibleIn(p) = {k}
                                 /\ {comps[k][j] : j \in 1..Len(comps[k])} =
                                    {found[i][j] : j \in 1..Len(found[i])}
                         ELSE VisibleIn(p) = {}
              ELSE VisibleIn(p) = {}

\* two sprites whose crop boxes share a pixel of the sheet
C10_Witness ==
    /\ pc = "exit"
    /\ status = "ok"
    /\ \E k \in 1..Len(sprites), j \in 1..Len(sprites) :
          /\ k # j
          /\ \E p \in SheetPixels :
                /\ InBox(sprites[k], p)
                /\ InBox(sprites[j], p)
                /\ VisibleIn(p) = {k}

----------------------------------------------------------------------------
(* Filter law *)

Survivors == {i \in 1..Len(found) : Len(found[i]) >= min_cells}

(* C5: the components that reach cropping are exactly the discovered ones  *)
(* with min_cells cells or more, the survivors keep their discovery order  *)
(* before sorting, and a run whose components are all dropped ends well    *)
(* with count = 0, no sprite record and its descriptor written.            *)
C5_FilterLaw ==
    pc \in {"sprite", "name", "write", "print", "exit"} =>
        /\ Len(kept) = Cardinality(Survivors)
        /\ \A i \in Survivors :
              kept[Cardinality({j \in Survivors : j <= i})] = found[i]
        /\ \A i \in 1..Len(found) :
              i \notin Survivors => Len(found[i]) < min_cells
        /\ Len(comps) = Len(kept)
        /\ \E f \in Perms(Len(kept)) : \A i \in 1..Len(kept) : comps[i] = kept[f[i]]
        /\ \A i \in 1..Len(comps) : Len(comps[i]) >= min_cells
        /\ pc = "exit" =>
              /\ status = "ok"
              /\ Len(sprites) = Cardinality(Survivors)
              /\ atlas.meta.count = Cardinality(Survivors)
              /\ Len(atlas.sprites) = atlas.meta.count
              /\ descriptor = <<atlas>>

\* Scenario D: something was discovered and all of it dropped
C5_Witness ==
    /\ pc = "exit"
    /\ status = "ok"
    /\ found # <<>>
    /\ Survivors = {}
    /\ atlas.meta.count = 0
    /\ atlas.sprites = <<>>
    /\ descriptor = <<atlas>>

----------------------------------------------------------------------------
(* Configuration errors *)

ConfigError ==
    \/ entry = "main" /\ ArgsRejected
    \/ entry = "direct" /\ sort_mode \notin SortModes

(* C7: a run whose arguments hold a configuration error (through main: a   *)
(* tile size below 1, a min_cells below 1 or an unknown sort mode; by a    *)
(* direct call of extract_sprites: an unknown sort mode) never creates the *)
(* output directory, never opens the image, writes nothing, and ends       *)
(* failed.                                                                 *)
C7_ConfigErrorsBeforeWork ==
    ConfigError =>
        /\ ~dir_made
        /\ ~opened
        /\ DOMAIN files = {}
        /\ descriptor = <<>>
        /\ pc = "exit" => status = "failed"

\* what holds of the code: main rejects before any work, and a direct call
\* with an unknown sort mode fails without a sprite file or a descriptor
C7_MainRejectsEarly ==
    /\ (entry = "main" /\ ArgsRejected) =>
          /\ ~dir_made
          /\ ~opened
          /\ DOMAIN files = {}
          /\ descriptor = <<>>
          /\ pc = "exit" => status = "failed"
    /\ (entry = "direct" /\ sort_mode \notin SortModes) =>
          /\ DOMAIN files = {}
          /\ descriptor = <<>>
          /\ pc = "exit" => status = "failed"

----------------------------------------------------------------------------
(* All-or-nothing output *)

DescriptorComplete ==
    descriptor # <<>> =>
        LET d == descriptor[1]
        IN  /\ Len(sprites) = Len(comps)
            /\ \A sid \in 0..(Len(comps) - 1) : SpriteFile(sid) \in DOMAIN files
            /\ d.sprites = sprites
            /\ d.meta.count = Len(d.sprites)
            /\ d.meta.count = Len(comps)
            /\ \A k \in 1..Len(d.sprites) :
                  /\ d.sprites[k].id = k - 1
                  /\ d.sprites[k].image = SpriteFile(k - 1)

(* C8: the descriptor is written only when every surviving component's     *)
(* sprite is saved and named, and then holds one record per surviving      *)
(* component, count records, ids 0..count-1 in order; a failed run has     *)
(* written no descriptor and left no sprite file behind.                   *)
C8_AllOrNothing ==
    /\ DescriptorComplete
    /\ status = "failed" => descriptor = <<>> /\ DOMAIN files = {}

\* what holds of the code: the descriptor comes last and complete, and a
\* failed run has written none
C8_DescriptorLast ==
    /\ DescriptorComplete
    /\ status = "failed" => descriptor = <<>>

====
